---- MODULE Spec2Model ----
(***************************************************************************)
(* Library Management API (src/main.py, src/schemas.py).                   *)
(*                                                                         *)
(* The store holds three collections (book, member, loan).  Every HTTP     *)
(* handler is a sequence of store operations; each store operation is one  *)
(* atomic step of the request that runs it, and steps of different         *)
(* requests interleave freely (Spec) or not at all (SeqSpec).              *)
(*                                                                         *)
(* Identifiers: a document id is its index in the collection (ids are      *)
(* assigned at insertion and never reused); BadId stands for a string      *)
(* that ObjectId.is_valid rejects.                                         *)
(* Optional[int] / Optional[bool] values are <<>> (None) or <<v>>.         *)
(* Timestamps are integers (days); `now` is the wall clock.                *)
(***************************************************************************)
EXTENDS Integers, Sequences, FiniteSets, TLC

VARIABLES books, members, loans, now, pc, local, reply, workers

vars == <<books, members, loans, now, pc, local, reply, workers>>
store == <<books, members, loans>>

---------------------------------------------------------------------------
(* Bounds of the model *)
MaxBooks == 1
MaxMembers == 1
MaxLoans == 2
MaxCopies == 2
MaxTime == 2

(* Program constants *)
MinDays == 1
MaxDays == 60

Procs == {1, 2}
BadId == 0
NoTime == -1
None == <<>>
Some(v) == <<v>>
IsNone(o) == o = <<>>
Val(o) == o[1]

(* BorrowRequest.days: ge=1, le=60 *)
DaysValid(d) == d >= MinDays /\ d <= MaxDays

(* the loan durations the requests of the model carry *)
DaysInputs == {d \in {MinDays, MinDays + 1} : DaysValid(d)}
ShortestOnly == {d \in {MinDays} : DaysValid(d)}

---------------------------------------------------------------------------
(* Documents *)
NoBook == [exists |-> FALSE, total_copies |-> 0, copies_available |-> 0]
NoMember == [exists |-> FALSE, is_active |-> FALSE]
NoLoan == [exists |-> FALSE, member_id |-> BadId, book_id |-> BadId,
           borrowed_at |-> NoTime, due_at |-> NoTime, returned_at |-> NoTime,
           status |-> ""]

Book(total, avail) == [exists |-> TRUE, total_copies |-> total, copies_available |-> avail]
Member(active) == [exists |-> TRUE, is_active |-> active]
Loan(m, b, t, due) == [exists |-> TRUE, member_id |-> m, book_id |-> b,
                       borrowed_at |-> t, due_at |-> due, returned_at |-> NoTime,
                       status |-> "borrowed"]

(* ObjectId.is_valid *)
IsValidId(v) == v # BadId

(* db[coll].find_one({"_id": id}) : the document, or the absent document *)
FindOne(coll, absent, id) ==
    IF id \in 1..Len(coll) /\ coll[id].exists THEN coll[id] ELSE absent

(* create_document: insert, the new id is the next index *)
Insert(coll, doc) == Append(coll, doc)

---------------------------------------------------------------------------
(* Pure parts of the handlers *)

(* create_book: copies_available defaults to total_copies when omitted *)
CopiesDefault(total, avail_opt) ==
    IF IsNone(avail_opt) THEN total ELSE Val(avail_opt)

(* schemas.Book: total_copies ge=0, copies_available ge=0 *)
BookSchemaValid(total, avail) == total >= 0 /\ avail >= 0

(* update_book: {"$set": update} with the fields that are not None *)
SetBookFields(book, total_opt, avail_opt) ==
    [book EXCEPT
       !.total_copies = IF IsNone(total_opt) THEN @ ELSE Val(total_opt),
       !.copies_available = IF IsNone(avail_opt) THEN @ ELSE Val(avail_opt)]

(* update_member: {"$set": update} with the fields that are not None *)
SetMemberFields(member, active_opt) ==
    [member EXCEPT !.is_active = IF IsNone(active_opt) THEN @ ELSE Val(active_opt)]

(* mutant of IncCopies: the decrement is conditional on copies_available > 0,
   one atomic compare-and-decrement *)
IncCopies_conditional(bks, b, delta) ==
    IF b \in 1..Len(bks) /\ bks[b].exists /\ bks[b].copies_available + delta >= 0
    THEN [bks EXCEPT ![b].copies_available = @ + delta]
    ELSE bks

(* mutant of IncCopies: a decrement is not applied *)
IncCopies_no_decrement(bks, b, delta) ==
    IF b \in 1..Len(bks) /\ bks[b].exists /\ delta > 0
    THEN [bks EXCEPT ![b].copies_available = @ + delta]
    ELSE bks

(* db["book"].update_one({"_id": b}, {"$inc": {"copies_available": delta}}):
   a missing book matches nothing and the result is not looked at *)
IncCopies(bks, b, delta) ==
    IF b \in 1..Len(bks) /\ bks[b].exists
    THEN [bks EXCEPT ![b].copies_available = @ + delta]
    ELSE bks

(* delete_one: the document is gone, its id is never reused *)
DeleteOne(coll, absent, id) == [coll EXCEPT ![id] = absent]

(* mutant of MemberMayBorrow: is_active is not looked at *)
MemberMayBorrow_any(member) == member.exists

(* borrow_book: `not member or not member.get("is_active", True)` is the failure *)
MemberMayBorrow(member) == member.exists /\ member.is_active

(* mutant of HasCopies: only a negative count fails *)
HasCopies_nonneg(book) == ~(book.copies_available < 0)

(* borrow_book: `book.get("copies_available", 0) <= 0` is the failure *)
HasCopies(book) == ~(book.copies_available <= 0)

(* borrow_book: due_at = utcnow() + timedelta(days) *)
DueAt(t, days) == t + days

ActiveStatuses == {"borrowed", "overdue"}

(* mutant of MemberActiveLoans: overdue loans are not counted *)
MemberActiveLoans_borrowed_only(lns, m) ==
    Cardinality({i \in 1..Len(lns) :
        lns[i].member_id = m /\ lns[i].status = "borrowed"})

(* count_documents({"member_id": m, "status": {"$in": [borrowed, overdue]}}) *)
MemberActiveLoans(lns, m) ==
    Cardinality({i \in 1..Len(lns) :
        lns[i].member_id = m /\ lns[i].status \in ActiveStatuses})

(* mutant of SweepOverdue: the filter has no status condition *)
SweepOverdue_any_status(lns, t) ==
    [i \in 1..Len(lns) |->
        IF lns[i].due_at < t THEN [lns[i] EXCEPT !.status = "overdue"] ELSE lns[i]]

(* mutant of SweepOverdue: a loan due exactly now is swept too *)
SweepOverdue_lte(lns, t) ==
    [i \in 1..Len(lns) |->
        IF lns[i].status = "borrowed" /\ lns[i].due_at <= t
        THEN [lns[i] EXCEPT !.status = "overdue"]
        ELSE lns[i]]

(* list_loans: update_many({"status": "borrowed", "due_at": {"$lt": now}},
                           {"$set": {"status": "overdue"}}) *)
SweepOverdue(lns, t) ==
    [i \in 1..Len(lns) |->
        IF lns[i].status = "borrowed" /\ lns[i].due_at < t
        THEN [lns[i] EXCEPT !.status = "overdue"]
        ELSE lns[i]]

(* list_loans: find(query), query = {} or {"status": status}; the documents
   are reported with their ids (the order of the listing is not kept) *)
FindLoans(lns, filter_opt) ==
    {[id |-> i, status |-> lns[i].status] : i \in
        {j \in 1..Len(lns) : IsNone(filter_opt) \/ lns[j].status = Val(filter_opt)}}

(* mutant of IsReturned: the status is compared with a string no loan has *)
IsReturned_typo(loan) == loan.status = "return"

(* return_book: `loan.get("status") == "returned"` is the no-op path *)
IsReturned(loan) == loan.status = "returned"

(* mutant of MarkReturned: returned_at is not written *)
MarkReturned_status_only(lns, l, t) ==
    [lns EXCEPT ![l] = [@ EXCEPT !.status = "returned"]]

(* return_book: update_one({"_id": l}, {"$set": {"status": "returned",
   "returned_at": now}}), whatever the loan's status is at that moment *)
MarkReturned(lns, l, t) ==
    [lns EXCEPT ![l] = [@ EXCEPT !.status = "returned", !.returned_at = t]]

(* stats *)
RECURSIVE SumField(_, _, _)
SumField(coll, i, total) ==
    IF i > Len(coll) THEN 0
    ELSE (IF coll[i].exists
          THEN (IF total THEN coll[i].total_copies ELSE coll[i].copies_available)
          ELSE 0) + SumField(coll, i + 1, total)

CountDocuments(coll) == Cardinality({i \in 1..Len(coll) : coll[i].exists})

(* $group over the book collection: no row at all when there is no book *)
AggregateCopies(bks) ==
    IF CountDocuments(bks) = 0 THEN <<>>
    ELSE <<[total |-> SumField(bks, 1, TRUE), available |-> SumField(bks, 1, FALSE)]>>

(* mutant of CountActive: overdue loans are not counted *)
CountActive_borrowed_only(lns) ==
    Cardinality({i \in 1..Len(lns) : lns[i].status = "borrowed"})

(* mutant of CountOverdue: a borrowed loan past its due date counts as overdue *)
CountOverdue_past_due(lns) ==
    Cardinality({i \in 1..Len(lns) :
        lns[i].status = "overdue" \/ (lns[i].status = "borrowed" /\ lns[i].due_at < now)})

CountActive(lns) == Cardinality({i \in 1..Len(lns) : lns[i].status \in ActiveStatuses})
CountOverdue(lns) == Cardinality({i \in 1..Len(lns) : lns[i].status = "overdue"})

---------------------------------------------------------------------------
(* Requests in flight: `workers` requests at most are served at a time *)
NoLocal == [member_id |-> BadId, book_id |-> BadId, loan_id |-> BadId,
            days |-> 0, due_at |-> NoTime, copies |-> 0,
            filter |-> <<>>, now |-> NoTime,
            n_books |-> 0, total |-> 0, available |-> 0, n_members |-> 0,
            active |-> 0]

NoBody == [none |-> TRUE]
NoReply == [proc |-> 0, op |-> "", line |-> 0, code |-> 0, detail |-> "",
            body |-> NoBody]

(* the answer of the request `op` served by p: the line of main.py that
   returns or raises, the HTTP status, the error detail, the body *)
Resp(p, op, line, code, detail, body) ==
    [proc |-> p, op |-> op, line |-> line, code |-> code, detail |-> detail,
     body |-> body]

Idle(p) == pc[p] = "idle"

(* a new request is served by the first free worker *)
Free(p) == p <= workers /\ Idle(p) /\ \A q \in Procs : q < p => ~Idle(q)

(* the request answers and ends *)
Return(p, rep) ==
    /\ pc' = [pc EXCEPT ![p] = "idle"]
    /\ local' = [local EXCEPT ![p] = NoLocal]
    /\ reply' = rep
    /\ UNCHANGED workers

(* the request goes on to its next store operation *)
Goto(p, label, loc) ==
    /\ pc' = [pc EXCEPT ![p] = label]
    /\ local' = [local EXCEPT ![p] = loc]
    /\ reply' = NoReply
    /\ UNCHANGED workers

(* the loan collection of the model holds MaxLoans documents: a borrow request
   that would insert one more is not started, or waits *)
LoanRoom ==
    Len(loans) + Cardinality({q \in Procs : pc[q] = "borrow_create_loan"}) < MaxLoans

(* the ids a request may carry: a malformed one, every id assigned so far, and
   one well-formed id that was not assigned *)
IdInputs(coll) == {BadId} \cup 1..(Len(coll) + 1)
CopiesInputs == 0..MaxCopies
OptCopiesInputs == {None} \cup {Some(c) : c \in CopiesInputs}
StatusInputs == {None, Some("borrowed"), Some("overdue"), Some("returned")}

---------------------------------------------------------------------------
(* Books *)

(* POST /api/books: a copies_available that the Book schema rejects ends the
   request with an unhandled validation error *)
create_book(p, total, avail_opt) ==
    /\ Free(p)
    /\ LET avail == CopiesDefault(total, avail_opt) IN
       IF ~BookSchemaValid(total, avail)
       THEN /\ Return(p, Resp(p, "create_book", 120, 500, "ValidationError", NoBody))
            /\ UNCHANGED <<store, now>>
       ELSE /\ Len(books) < MaxBooks
            /\ books' = Insert(books, Book(total, avail))
            /\ Return(p, Resp(p, "create_book", 123, 201, "",
                              [id |-> Len(books) + 1, doc |-> Book(total, avail)]))
            /\ UNCHANGED <<members, loans, now>>

(* PUT /api/books/{book_id} *)
update_book(p, b, total_opt, avail_opt) ==
    /\ Free(p)
    /\ IF ~IsValidId(b)
       THEN /\ Return(p, Resp(p, "update_book", 129, 400, "Invalid book id", NoBody))
            /\ UNCHANGED <<store, now>>
       ELSE IF IsNone(total_opt) /\ IsNone(avail_opt)
       THEN /\ Return(p, Resp(p, "update_book", 132, 400, "No fields to update", NoBody))
            /\ UNCHANGED <<store, now>>
       ELSE IF ~FindOne(books, NoBook, b).exists
       THEN /\ Return(p, Resp(p, "update_book", 136, 404, "Book not found", NoBody))
            /\ UNCHANGED <<store, now>>
       ELSE /\ books' = [books EXCEPT ![b] = SetBookFields(@, total_opt, avail_opt)]
            /\ Return(p, Resp(p, "update_book", 138, 200, "",
                              [id |-> b, doc |-> books'[b]]))
            /\ UNCHANGED <<members, loans, now>>

(* DELETE /api/books/{book_id} *)
delete_book(p, b) ==
    /\ Free(p)
    /\ IF ~IsValidId(b)
       THEN /\ Return(p, Resp(p, "delete_book", 144, 400, "Invalid book id", NoBody))
            /\ UNCHANGED <<store, now>>
       ELSE IF ~FindOne(books, NoBook, b).exists
       THEN /\ Return(p, Resp(p, "delete_book", 147, 404, "Book not found", NoBody))
            /\ UNCHANGED <<store, now>>
       ELSE /\ books' = DeleteOne(books, NoBook, b)
            /\ Return(p, Resp(p, "delete_book", 148, 204, "", NoBody))
            /\ UNCHANGED <<members, loans, now>>

---------------------------------------------------------------------------
(* Members *)

(* POST /api/members *)
create_member(p, active) ==
    /\ Free(p)
    /\ Len(members) < MaxMembers
    /\ members' = Insert(members, Member(active))
    /\ Return(p, Resp(p, "create_member", 170, 201, "",
                      [id |-> Len(members) + 1, doc |-> Member(active)]))
    /\ UNCHANGED <<books, loans, now>>

(* PUT /api/members/{member_id} *)
update_member(p, m, active_opt) ==
    /\ Free(p)
    /\ IF ~IsValidId(m)
       THEN /\ Return(p, Resp(p, "update_member", 176, 400, "Invalid member id", NoBody))
            /\ UNCHANGED <<store, now>>
       ELSE IF IsNone(active_opt)
       THEN /\ Return(p, Resp(p, "update_member", 179, 400, "No fields to update", NoBody))
            /\ UNCHANGED <<store, now>>
       ELSE IF ~FindOne(members, NoMember, m).exists
       THEN /\ Return(p, Resp(p, "update_member", 183, 404, "Member not found", NoBody))
            /\ UNCHANGED <<store, now>>
       ELSE /\ members' = [members EXCEPT ![m] = SetMemberFields(@, active_opt)]
            /\ Return(p, Resp(p, "update_member", 185, 200, "",
                              [id |-> m, doc |-> members'[m]]))
            /\ UNCHANGED <<books, loans, now>>

(* DELETE /api/members/{member_id}: the id check and the count of active loans *)
delete_member(p, m) ==
    /\ Free(p)
    /\ UNCHANGED <<store, now>>
    /\ IF ~IsValidId(m)
       THEN Return(p, Resp(p, "delete_member", 191, 400, "Invalid member id", NoBody))
       ELSE IF MemberActiveLoans(loans, m) > 0
       THEN Return(p, Resp(p, "delete_member", 195, 400, "Member has active loans", NoBody))
       ELSE Goto(p, "delete_member_delete", [NoLocal EXCEPT !.member_id = m])

(* delete_member: delete_one *)
delete_member_delete(p) ==
    /\ pc[p] = "delete_member_delete"
    /\ LET m == local[p].member_id IN
       IF ~FindOne(members, NoMember, m).exists
       THEN /\ Return(p, Resp(p, "delete_member", 198, 404, "Member not found", NoBody))
            /\ UNCHANGED <<store, now>>
       ELSE /\ members' = DeleteOne(members, NoMember, m)
            /\ Return(p, Resp(p, "delete_member", 199, 204, "", NoBody))
            /\ UNCHANGED <<books, loans, now>>

---------------------------------------------------------------------------
(* Loans *)

(* GET /api/loans: the overdue sweep at the current time *)
list_loans(p, filter_opt) ==
    /\ Free(p)
    /\ loans' = SweepOverdue(loans, now)
    /\ Goto(p, "list_loans_find", [NoLocal EXCEPT !.filter = filter_opt, !.now = now])
    /\ UNCHANGED <<books, members, now>>

(* list_loans: the query, answered with the documents found *)
list_loans_find(p) ==
    /\ pc[p] = "list_loans_find"
    /\ Return(p, Resp(p, "list_loans", 223, 200, "",
                      [items |-> FindLoans(loans, local[p].filter)]))
    /\ UNCHANGED <<store, now>>

(* POST /api/loans/borrow: the id checks and the member check *)
borrow_book(p, m, b, days) ==
    /\ Free(p)
    /\ UNCHANGED <<store, now>>
    /\ IF ~IsValidId(m) \/ ~IsValidId(b)
       THEN Return(p, Resp(p, "borrow_book", 230, 400, "Invalid member or book id", NoBody))
       ELSE IF ~MemberMayBorrow(FindOne(members, NoMember, m))
       THEN Return(p, Resp(p, "borrow_book", 233, 400, "Member not found or inactive", NoBody))
       ELSE /\ LoanRoom \/ ~FindOne(books, NoBook, b).exists
                        \/ ~HasCopies(FindOne(books, NoBook, b))
            /\ Goto(p, "borrow_find_book",
                    [NoLocal EXCEPT !.member_id = m, !.book_id = b, !.days = days])

(* borrow_book: the book is read and checked, due_at is computed *)
borrow_find_book(p) ==
    /\ pc[p] = "borrow_find_book"
    /\ UNCHANGED <<store, now>>
    /\ LET book == FindOne(books, NoBook, local[p].book_id) IN
       IF ~book.exists
       THEN Return(p, Resp(p, "borrow_book", 236, 404, "Book not found", NoBody))
       ELSE IF ~HasCopies(book)
       THEN Return(p, Resp(p, "borrow_book", 238, 400, "No copies available", NoBody))
       ELSE /\ LoanRoom
            /\ Goto(p, "borrow_create_loan",
                    [local[p] EXCEPT !.copies = book.copies_available,
                                     !.due_at = DueAt(now, local[p].days)])

(* borrow_book: the loan document is inserted, borrowed_at is read off the clock *)
borrow_create_loan(p) ==
    /\ pc[p] = "borrow_create_loan"
    /\ loans' = Insert(loans, Loan(local[p].member_id, local[p].book_id, now,
                                   local[p].due_at))
    /\ Goto(p, "borrow_decrement", [local[p] EXCEPT !.loan_id = Len(loans) + 1])
    /\ UNCHANGED <<books, members, now>>

(* borrow_book: the book's copies_available is decremented *)
borrow_decrement(p) ==
    /\ pc[p] = "borrow_decrement"
    /\ books' = IncCopies(books, local[p].book_id, -1)
    /\ Goto(p, "borrow_fetch", local[p])
    /\ UNCHANGED <<members, loans, now>>

(* borrow_book: the loan is read back and returned *)
borrow_fetch(p) ==
    /\ pc[p] = "borrow_fetch"
    /\ Return(p, Resp(p, "borrow_book", 252, 201, "",
                      [id |-> local[p].loan_id,
                       doc |-> FindOne(loans, NoLoan, local[p].loan_id)]))
    /\ UNCHANGED <<store, now>>

(* POST /api/loans/{loan_id}/return: the id check, the loan is read *)
return_book(p, l) ==
    /\ Free(p)
    /\ UNCHANGED <<store, now>>
    /\ IF ~IsValidId(l)
       THEN Return(p, Resp(p, "return_book", 258, 400, "Invalid loan id", NoBody))
       ELSE LET loan == FindOne(loans, NoLoan, l) IN
            IF ~loan.exists
            THEN Return(p, Resp(p, "return_book", 261, 404, "Loan not found", NoBody))
            ELSE IF IsReturned(loan)
            THEN Return(p, Resp(p, "return_book", 263, 200, "",
                              [id |-> l, doc |-> loan]))
            ELSE Goto(p, "return_mark",
                      [NoLocal EXCEPT !.loan_id = l, !.book_id = loan.book_id])

(* return_book: the loan is marked returned at the current time *)
return_mark(p) ==
    /\ pc[p] = "return_mark"
    /\ loans' = MarkReturned(loans, local[p].loan_id, now)
    /\ Goto(p, "return_increment", local[p])
    /\ UNCHANGED <<books, members, now>>

(* return_book: the book's copies_available is incremented *)
return_increment(p) ==
    /\ pc[p] = "return_increment"
    /\ books' = IncCopies(books, local[p].book_id, 1)
    /\ Goto(p, "return_fetch", local[p])
    /\ UNCHANGED <<members, loans, now>>

(* return_book: the loan is read back and returned *)
return_fetch(p) ==
    /\ pc[p] = "return_fetch"
    /\ Return(p, Resp(p, "return_book", 273, 200, "",
                      [id |-> local[p].loan_id,
                       doc |-> FindOne(loans, NoLoan, local[p].loan_id)]))
    /\ UNCHANGED <<store, now>>

---------------------------------------------------------------------------
(* GET /api/stats: five reads, one after the other *)
stats(p) ==
    /\ Free(p)
    /\ Goto(p, "stats_copies", [NoLocal EXCEPT !.n_books = CountDocuments(books)])
    /\ UNCHANGED <<store, now>>

stats_copies(p) ==
    /\ pc[p] = "stats_copies"
    /\ LET rows == AggregateCopies(books) IN
       Goto(p, "stats_members",
            [local[p] EXCEPT
               !.total = IF rows # <<>> THEN rows[1].total ELSE 0,
               !.available = IF rows # <<>> THEN rows[1].available ELSE 0])
    /\ UNCHANGED <<store, now>>

stats_members(p) ==
    /\ pc[p] = "stats_members"
    /\ Goto(p, "stats_active", [local[p] EXCEPT !.n_members = CountDocuments(members)])
    /\ UNCHANGED <<store, now>>

stats_active(p) ==
    /\ pc[p] = "stats_active"
    /\ Goto(p, "stats_overdue", [local[p] EXCEPT !.active = CountActive(loans)])
    /\ UNCHANGED <<store, now>>

stats_overdue(p) ==
    /\ pc[p] = "stats_overdue"
    /\ Return(p, Resp(p, "stats", 290, 200, "",
                      [books |-> local[p].n_books,
                       copies |-> local[p].total,
                       available |-> local[p].available,
                       members |-> local[p].n_members,
                       active_loans |-> local[p].active,
                       overdue |-> CountOverdue(loans)]))
    /\ UNCHANGED <<store, now>>

---------------------------------------------------------------------------
(* the clock *)
Tick ==
    /\ now < MaxTime
    /\ now' = now + 1
    /\ reply' = NoReply
    /\ UNCHANGED <<store, pc, local, workers>>

(* the store operations of the handlers, by handler *)
BookSteps(p) ==
    \/ \E t \in CopiesInputs, a \in OptCopiesInputs \cup {Some(-1)} : create_book(p, t, a)
    \/ \E b \in IdInputs(books), t \in OptCopiesInputs, a \in OptCopiesInputs :
          update_book(p, b, t, a)
    \/ \E b \in IdInputs(books) : delete_book(p, b)

MemberSteps(p) ==
    \/ \E a \in BOOLEAN : create_member(p, a)
    \/ \E m \in IdInputs(members), a \in {None, Some(TRUE), Some(FALSE)} :
          update_member(p, m, a)

DeleteMemberSteps(p) ==
    \/ \E m \in IdInputs(members) : delete_member(p, m)
    \/ delete_member_delete(p)

ListSteps(p) ==
    \/ \E f \in StatusInputs : list_loans(p, f)
    \/ list_loans_find(p)

BorrowSteps(p, D) ==
    \/ \E m \in IdInputs(members), b \in IdInputs(books), d \in D :
          borrow_book(p, m, b, d)
    \/ borrow_find_book(p)
    \/ borrow_create_loan(p)
    \/ borrow_decrement(p)
    \/ borrow_fetch(p)

ReturnSteps(p) ==
    \/ \E l \in IdInputs(loans) : return_book(p, l)
    \/ return_mark(p)
    \/ return_increment(p)
    \/ return_fetch(p)

StatsSteps(p) ==
    \/ stats(p)
    \/ stats_copies(p)
    \/ stats_members(p)
    \/ stats_active(p)
    \/ stats_overdue(p)

---------------------------------------------------------------------------
(* Specifications *)

Quiet(w) ==
    /\ now = 0
    /\ pc = [p \in Procs |-> "idle"]
    /\ local = [p \in Procs |-> NoLocal]
    /\ reply = NoReply
    /\ workers = w

(* a library after a create_book (copies_available left out) and a create_member *)
Library ==
    /\ \E t \in 1..MaxCopies : books = <<Book(t, CopiesDefault(t, None))>>
    /\ \E a \in BOOLEAN : members = <<Member(a)>>
    /\ loans = <<>>

Min(a, b) == IF a <= b THEN a ELSE b

(* that library after k borrow requests at time 0, one after the other *)
LentLibrary ==
    \E t \in 1..MaxCopies, d \in DaysInputs :
      \E k \in 1..Min(t, MaxLoans) :
        /\ books = <<Book(t, t - k)>>
        /\ members = <<Member(TRUE)>>
        /\ loans = [i \in 1..k |-> Loan(1, 1, 0, DueAt(0, d))]

(* Spec: borrowing, returning and member deletions by two workers, interleaved
   at every store operation; the clock stands still *)
Init == Library /\ Quiet(2)

Next ==
    \E p \in Procs :
        \/ BorrowSteps(p, ShortestOnly)
        \/ ReturnSteps(p)
        \/ DeleteMemberSteps(p)

Spec == Init /\ [][Next]_vars

(* TimedSpec: returning and listing by two workers, interleaved, the clock runs *)
TimedInit == LentLibrary /\ Quiet(2)

TimedNext == Tick \/ \E p \in Procs : ReturnSteps(p) \/ ListSteps(p)

TimedSpec == TimedInit /\ [][TimedNext]_vars

(* SeqSpec: the loan workflow by one worker, one request at a time, on that
   library or on the empty store; the clock runs *)
EmptyStore == books = <<>> /\ members = <<>> /\ loans = <<>>

SeqInit == (Library \/ EmptyStore) /\ Quiet(1)

SeqNext ==
    \/ Tick
    \/ \E p \in Procs :
          \/ BorrowSteps(p, ShortestOnly)
          \/ ReturnSteps(p)
          \/ ListSteps(p)
          \/ DeleteMemberSteps(p)
          \/ StatsSteps(p)

SeqSpec == SeqInit /\ [][SeqNext]_vars

(* BookSpec: the book and member records from the empty store, then borrowing
   and returning, one request at a time *)
BookInit == EmptyStore /\ Quiet(1)

BookNext ==
    \E p \in Procs :
        \/ BookSteps(p)
        \/ MemberSteps(p)
        \/ BorrowSteps(p, ShortestOnly)
        \/ ReturnSteps(p)

BookSpec == BookInit /\ [][BookNext]_vars

---------------------------------------------------------------------------
(* Properties *)

BookIds == {b \in 1..Len(books) : books[b].exists}
LoanIds == 1..Len(loans)
LoansOf(b) == {i \in LoanIds : loans[i].book_id = b}
ActiveLoansOf(b) ==
    {i \in LoansOf(b) : loans[i].status = "borrowed" \/ loans[i].status = "overdue"}
WithinBounds(book) ==
    0 <= book.copies_available /\ book.copies_available <= book.total_copies

(* the request served by p takes the step that leaves `label` *)
Leaves(p, label) == pc[p] = label /\ pc'[p] # label
(* the request served by p takes its first step and goes on to `label` *)
Enters(p, label) == pc[p] = "idle" /\ pc'[p] = label
(* the request `op` served by p answers in this step *)
Answers(p, op) == pc'[p] = "idle" /\ reply'.proc = p /\ reply'.op = op
Failed(line, code, detail) ==
    reply'.line = line /\ reply'.code = code /\ reply'.detail = detail
    /\ reply'.body = NoBody

(* C1: every book created with copies_available = total_copies keeps
   0 <= copies_available <= total_copies in every state that borrow_book and
   return_book requests reach, their store operations interleaved *)
C1_CopiesWithinBounds == \A b \in BookIds : WithinBounds(books[b])

(* C10: two borrow_book requests read copies_available = 1 of the same book
   and pass the check before either writes its decrement: when the first has
   decremented (the book stands at 0) the second still decrements, so both
   succeed, each with a loan of its own on the book, and the book ends at -1 *)
C10_BothBorrowersPass ==
    [][\A p \in Procs, q \in Procs :
        (/\ p # q
         /\ pc[p] = "borrow_fetch"
         /\ Leaves(q, "borrow_decrement")
         /\ local[p].book_id = local[q].book_id
         /\ local[p].copies = 1 /\ local[q].copies = 1
         /\ books[local[q].book_id].copies_available = 0)
        => /\ pc'[q] = "borrow_fetch"
           /\ local[p].loan_id # local[q].loan_id
           /\ \A l \in {local[p].loan_id, local[q].loan_id} :
                 /\ l \in 1..Len(loans')
                 /\ loans'[l].book_id = local[q].book_id
           /\ books'[local[q].book_id].copies_available = -1]_vars

(* two loans are out on the single copy of a book that stands at -1 *)
C10_OverLent ==
    /\ pc[1] = "borrow_fetch" /\ pc[2] = "borrow_fetch"
    /\ local[1].copies = 1 /\ local[2].copies = 1
    /\ \E b \in BookIds :
          /\ books[b].total_copies = 1
          /\ books[b].copies_available = -1
          /\ Cardinality(ActiveLoansOf(b)) = 2

(* C6: borrow_book goes past its member check only for an existing, active
   member and past its book check only for an existing book with
   copies_available > 0; otherwise it answers 400 "Member not found or
   inactive", 404 "Book not found" or 400 "No copies available"; a loan is
   inserted only by a request past both checks, and no step of a failing
   request changes a loan or a book (ids well-formed) *)
C6_BorrowChecks ==
    [][\A p \in Procs :
        /\ \A m \in IdInputs(members), b \in IdInputs(books), d \in ShortestOnly :
              (borrow_book(p, m, b, d) /\ IsValidId(m) /\ IsValidId(b))
              => IF m \in 1..Len(members) /\ members[m].exists /\ members[m].is_active
                 THEN /\ pc'[p] = "borrow_find_book"
                      /\ local'[p].member_id = m /\ local'[p].book_id = b
                 ELSE /\ Answers(p, "borrow_book")
                      /\ Failed(233, 400, "Member not found or inactive")
        /\ Enters(p, "borrow_find_book")
              => LET m == local'[p].member_id IN
                 m \in 1..Len(members) /\ members[m].exists /\ members[m].is_active
        /\ Leaves(p, "borrow_find_book")
              => LET b == local[p].book_id IN
                 IF b \notin BookIds
                 THEN Answers(p, "borrow_book") /\ Failed(236, 404, "Book not found")
                 ELSE IF books[b].copies_available > 0
                 THEN pc'[p] = "borrow_create_loan"
                 ELSE Answers(p, "borrow_book") /\ Failed(238, 400, "No copies available")
        /\ (Enters(p, "borrow_find_book") \/ Leaves(p, "borrow_find_book")
            \/ (Answers(p, "borrow_book") /\ reply'.code # 201))
              => UNCHANGED store
        /\ Leaves(p, "borrow_create_loan")
              => loans' = Append(loans, [exists |-> TRUE,
                                         member_id |-> local[p].member_id,
                                         book_id |-> local[p].book_id,
                                         borrowed_at |-> now,
                                         due_at |-> local[p].due_at,
                                         returned_at |-> NoTime,
                                         status |-> "borrowed"])
        /\ Len(loans') > Len(loans)
              => \E q \in Procs : Leaves(q, "borrow_create_loan")]_vars

(* a borrow request of an inactive member was turned down, no loan exists *)
C6_InactiveRejected ==
    /\ reply.op = "borrow_book" /\ reply.line = 233 /\ reply.code = 400
    /\ \E m \in 1..Len(members) : members[m].exists /\ ~members[m].is_active
    /\ loans = <<>>

(* C7: returned is terminal and entered once: no step of any request changes
   the status or the returned_at of a loan that is returned *)
C7_ReturnedIsTerminal ==
    [][\A l \in LoanIds :
        loans[l].status = "returned"
        => /\ loans'[l].status = "returned"
           /\ loans'[l].returned_at = loans[l].returned_at]_vars

(* C9: after every mutation of a book record (create_book, update_book,
   borrow_book, return_book) the book has 0 <= copies_available <= total_copies *)
C9_MutationsKeepBounds ==
    /\ (reply.op \in {"create_book", "update_book"} /\ reply.code \in {200, 201})
          => WithinBounds(books[reply.body.id])
    /\ (reply.op \in {"borrow_book", "return_book"} /\ reply.code \in {200, 201})
          => \A b \in BookIds : b = reply.body.doc.book_id => WithinBounds(books[b])

(* C2: one request at a time: borrow_book of an active member on a book with
   copies_available = 1 passes its checks, inserts a borrowed loan, leaves
   copies_available = 0 and answers 201; a borrow_book that then finds
   copies_available = 0 answers 400 "No copies available", inserts no loan and
   leaves copies_available at 0 *)
C2_LastCopy ==
    [][\A p \in Procs :
        LET b == local[p].book_id IN
        /\ (Leaves(p, "borrow_find_book") /\ b \in BookIds
            /\ books[b].copies_available = 1)
              => pc'[p] = "borrow_create_loan" /\ local'[p].copies = 1
        /\ (Leaves(p, "borrow_create_loan") /\ local[p].copies = 1)
              => /\ pc'[p] = "borrow_decrement"
                 /\ Len(loans') = Len(loans) + 1
                 /\ loans'[Len(loans')].status = "borrowed"
                 /\ loans'[Len(loans')].book_id = b
        /\ (Leaves(p, "borrow_decrement") /\ local[p].copies = 1)
              => pc'[p] = "borrow_fetch" /\ books'[b].copies_available = 0
        /\ (Leaves(p, "borrow_fetch") /\ local[p].copies = 1)
              => /\ Answers(p, "borrow_book") /\ reply'.code = 201
                 /\ reply'.body.doc.status = "borrowed"
                 /\ books'[b].copies_available = 0
        /\ (Leaves(p, "borrow_find_book") /\ b \in BookIds
            /\ books[b].copies_available = 0)
              => /\ Answers(p, "borrow_book")
                 /\ Failed(238, 400, "No copies available")
                 /\ loans' = loans
                 /\ books' = books /\ books'[b].copies_available = 0]_vars

(* the last copy is lent and a further borrow_book was turned down *)
C2_SecondBorrowRefused ==
    /\ reply.op = "borrow_book" /\ reply.line = 238 /\ reply.code = 400
    /\ \E b \in BookIds :
          /\ books[b].copies_available = 0
          /\ Cardinality(ActiveLoansOf(b)) = books[b].total_copies
          /\ Cardinality(LoansOf(b)) = books[b].total_copies

(* C3: one request at a time: return_book on a loan that is already returned
   answers 200 with the stored record and changes no loan and no book; the
   book then stands at total_copies minus its loans still out, one increment
   per returned loan *)
C3_ReturnTwice ==
    [][\A p \in Procs, l \in LoanIds :
        (return_book(p, l) /\ loans[l].status = "returned")
        => /\ Answers(p, "return_book")
           /\ reply' = Resp(p, "return_book", 263, 200, "", [id |-> l, doc |-> loans[l]])
           /\ UNCHANGED store
           /\ \A b \in BookIds :
                 b = loans[l].book_id
                 => books'[b].copies_available =
                       books[b].total_copies - Cardinality(ActiveLoansOf(b))]_vars

(* a second return_book of a loan was answered with the stored record *)
C3_SecondReturnAnswered ==
    /\ reply.op = "return_book" /\ reply.line = 263 /\ reply.code = 200
    /\ reply.body.id \in LoanIds
    /\ loans[reply.body.id].status = "returned"
    /\ reply.body.doc = loans[reply.body.id]

(* C4: one request at a time: the sweep of list_loans at time now turns every
   loan that is borrowed with due_at < now into overdue and leaves returned
   loans as they are; the listing that follows reports none of the swept loans
   as borrowed, reports them as overdue when the filter is absent or
   "overdue", and reports every loan with its stored status *)
C4_SweepThenList ==
    [][\A p \in Procs :
        /\ Enters(p, "list_loans_find")
              => /\ local'[p].now = now
                 /\ \A i \in LoanIds :
                       /\ (loans[i].status = "borrowed" /\ loans[i].due_at < now)
                             => loans'[i].status = "overdue"
                       /\ loans[i].status = "returned" => loans'[i] = loans[i]
        /\ Leaves(p, "list_loans_find")
              => /\ Answers(p, "list_loans") /\ reply'.code = 200
                 /\ \A item \in reply'.body.items :
                       item.id \in LoanIds /\ item.status = loans[item.id].status
                 /\ \A i \in LoanIds :
                       (loans[i].due_at < local[p].now /\ loans[i].status # "returned")
                       => /\ [id |-> i, status |-> "borrowed"] \notin reply'.body.items
                          /\ local[p].filter \in {None, Some("overdue")}
                                => [id |-> i, status |-> "overdue"] \in reply'.body.items]_vars

(* a listing reports an overdue loan while another loan is returned *)
C4_OverdueListed ==
    /\ reply.op = "list_loans"
    /\ \E item \in reply.body.items : item.status = "overdue"
    /\ \E i \in LoanIds : loans[i].status = "returned"

(* C5: one request at a time: delete_member of a member with a borrowed or
   overdue loan answers 400 "Member has active loans" and changes nothing;
   with no such loan it goes on to delete an existing member and answers 204 *)
C5_DeleteMemberGuard ==
    [][\A p \in Procs :
        /\ \A m \in IdInputs(members) :
              (delete_member(p, m) /\ IsValidId(m))
              => IF \E i \in LoanIds :
                        /\ loans[i].member_id = m
                        /\ loans[i].status \in {"borrowed", "overdue"}
                 THEN /\ Answers(p, "delete_member")
                      /\ Failed(195, 400, "Member has active loans")
                      /\ UNCHANGED store
                 ELSE /\ pc'[p] = "delete_member_delete"
                      /\ local'[p].member_id = m
                      /\ UNCHANGED store
        /\ Leaves(p, "delete_member_delete")
              => LET m == local[p].member_id IN
                 /\ Answers(p, "delete_member")
                 /\ IF m \in 1..Len(members) /\ members[m].exists
                    THEN /\ reply'.code = 204
                         /\ ~members'[m].exists
                         /\ UNCHANGED <<books, loans>>
                    ELSE Failed(198, 404, "Member not found") /\ UNCHANGED store]_vars

(* a member was deleted once the loan it had was returned *)
C5_DeletedAfterReturn ==
    /\ reply.op = "delete_member" /\ reply.code = 204
    /\ \E m \in 1..Len(members) :
          /\ ~members[m].exists
          /\ \E i \in LoanIds : loans[i].member_id = m
          /\ \A i \in LoanIds : loans[i].member_id = m => loans[i].status = "returned"

RECURSIVE SumCopies(_, _)
SumCopies(ids, field) ==
    IF ids = {} THEN 0
    ELSE LET b == CHOOSE x \in ids : TRUE IN
         (IF field = "total_copies" THEN books[b].total_copies
          ELSE books[b].copies_available) + SumCopies(ids \ {b}, field)

(* C8: one request at a time: stats reports copies = sum of total_copies,
   available = sum of copies_available (0 and 0 without a book), active_loans
   = number of borrowed or overdue loans, overdue = number of overdue loans.
   For a book created with total_copies = copies_available = 2: with two loans
   out copies_available = 0 and a further borrow_book is answered "No copies
   available"; with one of the two loans returned copies_available = 1 and
   stats reports copies 2, available 1, active_loans 1 *)
C8_ScenarioAndStats ==
    /\ reply.op = "stats"
          => /\ reply.code = 200
             /\ reply.body.copies = SumCopies(BookIds, "total_copies")
             /\ reply.body.available = SumCopies(BookIds, "copies_available")
             /\ BookIds = {} => reply.body.copies = 0 /\ reply.body.available = 0
             /\ reply.body.active_loans =
                   Cardinality({i \in LoanIds : loans[i].status \in {"borrowed", "overdue"}})
             /\ reply.body.overdue =
                   Cardinality({i \in LoanIds : loans[i].status = "overdue"})
    /\ \A b \in BookIds :
          (books[b].total_copies = 2 /\ \A p \in Procs : Idle(p))
          => /\ Cardinality(ActiveLoansOf(b)) = 2
                   => books[b].copies_available = 0
             /\ (reply.op = "borrow_book" /\ reply.line = 238)
                   => /\ reply.code = 400 /\ reply.detail = "No copies available"
                      /\ books[b].copies_available = 0
                      /\ Cardinality(ActiveLoansOf(b)) = 2
             /\ (Cardinality(LoansOf(b)) = 2 /\ Len(loans) = 2
                 /\ Cardinality(ActiveLoansOf(b)) = 1)
                   => /\ books[b].copies_available = 1
                      /\ reply.op = "stats"
                            => /\ reply.body.copies = 2
                               /\ reply.body.available = 1
                               /\ reply.body.active_loans = 1

(* stats after two borrows and one return on the book with two copies *)
C8_StatsOfScenario ==
    /\ reply.op = "stats"
    /\ reply.body.copies = 2 /\ reply.body.available = 1
    /\ reply.body.active_loans = 1
    /\ Len(loans) = 2
    /\ \E i \in LoanIds : loans[i].status = "returned"
    /\ \E i \in LoanIds : loans[i].status = "borrowed"

(* C11: two return_book requests for the same loan, interleaved: the book is
   incremented at most once for that loan.  Under TimedSpec no loan is created
   and only return_book writes a book, after it has marked its loan returned,
   so one increment per loan at most keeps copies_available at or below
   total_copies minus the loans still out *)
C11_OneIncrementPerLoan ==
    \A b \in BookIds :
        books[b].copies_available <= books[b].total_copies - Cardinality(ActiveLoansOf(b))

(* C12: one request at a time, on a book created with copies_available =
   total_copies that no update_book or delete_book touches: whenever no
   request is in flight, copies_available = total_copies minus the number of
   borrowed or overdue loans on the book *)
C12_Conservation ==
    (\A p \in Procs : Idle(p))
    => \A b \in BookIds :
          books[b].copies_available =
             books[b].total_copies
             - Cardinality({i \in LoanIds : /\ loans[i].book_id = b
                                            /\ loans[i].status \in {"borrowed", "overdue"}})

(* no request in flight, one loan of the book returned and one overdue *)
C12_OneBackOneLate ==
    /\ \A p \in Procs : Idle(p)
    /\ \E b \in BookIds :
          /\ books[b].total_copies = 2 /\ books[b].copies_available = 1
          /\ \E i \in LoansOf(b) : loans[i].status = "returned"
          /\ \E i \in LoansOf(b) : loans[i].status = "overdue"

(* C13: delete_member and borrow_book requests interleaved: whenever no
   request is in flight, every borrowed or overdue loan has the id of an
   existing member *)
C13_ActiveLoanHasMember ==
    (\A p \in Procs : Idle(p))
    => \A i \in LoanIds :
          loans[i].status \in {"borrowed", "overdue"}
          => /\ loans[i].member_id \in 1..Len(members)
             /\ members[loans[i].member_id].exists

(* C14: one request at a time: no step of stats changes a book, a member or
   a loan, so no sweep runs; the answer counts in active_loans every borrowed
   or overdue loan and in overdue only the loans whose stored status is
   overdue, so a borrowed loan whose due_at has passed is in active_loans and
   not in overdue *)
C14_StatsReadsOnly ==
    [][\A p \in Procs :
        /\ (stats(p) \/ stats_copies(p) \/ stats_members(p) \/ stats_active(p)
             \/ stats_overdue(p))
              => UNCHANGED <<books, members, loans>>
        /\ Answers(p, "stats")
              => LET late == {i \in LoanIds : /\ loans[i].status = "borrowed"
                                               /\ loans[i].due_at < now} IN
                 /\ reply'.body.active_loans =
                       Cardinality({i \in LoanIds : loans[i].status # "returned"})
                 /\ reply'.body.overdue =
                       Cardinality({i \in LoanIds : loans[i].status = "overdue"})
                 /\ reply'.body.active_loans >= reply'.body.overdue + Cardinality(late)
                 /\ \A i \in late : loans'[i].status = "borrowed"]_vars

(* stats answered while a borrowed loan is past its due date and unswept *)
C14_LateLoanNotOverdue ==
    /\ reply.op = "stats"
    /\ reply.body.overdue = 0 /\ reply.body.active_loans = 1
    /\ \E i \in LoanIds : loans[i].status = "borrowed" /\ loans[i].due_at < now

(* C15: the sweep of list_loans changes only the status of the loans that are
   borrowed with due_at < now, to overdue: every other field of those loans,
   every loan that is overdue, returned or borrowed with due_at >= now, and
   every book and member stay as they are; after it no loan is left for a
   second sweep at the same time to change, and a sweep that finds no such
   loan changes nothing *)
C15_SweepFrame ==
    [][\A p \in Procs, f \in StatusInputs :
        list_loans(p, f)
        => /\ UNCHANGED <<books, members, now>>
           /\ Len(loans') = Len(loans)
           /\ \A i \in LoanIds :
                 IF loans[i].status = "borrowed" /\ loans[i].due_at < now
                 THEN loans'[i] = [exists |-> loans[i].exists,
                                   member_id |-> loans[i].member_id,
                                   book_id |-> loans[i].book_id,
                                   borrowed_at |-> loans[i].borrowed_at,
                                   due_at |-> loans[i].due_at,
                                   returned_at |-> loans[i].returned_at,
                                   status |-> "overdue"]
                 ELSE loans'[i] = loans[i]
           /\ ~\E i \in LoanIds : loans'[i].status = "borrowed" /\ loans'[i].due_at < now
           /\ (~\E i \in LoanIds : loans[i].status = "borrowed" /\ loans[i].due_at < now)
                 => loans' = loans]_vars

(* a sweep has run over an overdue loan and a borrowed loan that is not yet due *)
C15_SweptOneOfTwo ==
    /\ \E p \in Procs : pc[p] = "list_loans_find" /\ local[p].now = now
    /\ \E i \in LoanIds : loans[i].status = "overdue"
    /\ \E i \in LoanIds : loans[i].status = "borrowed" /\ loans[i].due_at >= now

(* C16: one request at a time: return_book on a borrowed or overdue loan
   sets status = returned and returned_at = the time of the write, changes
   nothing else in the loans, then adds exactly 1 to copies_available of the
   loan's book and changes no other book, and answers 200 with the returned
   loan; with a well-formed unknown id it answers 404 "Loan not found", with a
   malformed id 400 "Invalid loan id", and changes nothing in both cases *)
C16_ReturnBook ==
    [][\A p \in Procs :
        /\ \A l \in IdInputs(loans) :
              return_book(p, l)
              => /\ UNCHANGED <<books, members, loans>>
                 /\ IF l = BadId
                    THEN Answers(p, "return_book") /\ Failed(258, 400, "Invalid loan id")
                    ELSE IF l \notin LoanIds
                    THEN Answers(p, "return_book") /\ Failed(261, 404, "Loan not found")
                    ELSE loans[l].status \in {"borrowed", "overdue"}
                         => /\ pc'[p] = "return_mark"
                            /\ local'[p].loan_id = l
                            /\ local'[p].book_id = loans[l].book_id
        /\ Leaves(p, "return_mark")
              => LET l == local[p].loan_id IN
                 /\ pc'[p] = "return_increment"
                 /\ loans'[l].status = "returned"
                 /\ loans'[l].returned_at = now /\ now # NoTime
                 /\ loans'[l].member_id = loans[l].member_id
                 /\ loans'[l].book_id = loans[l].book_id
                 /\ loans'[l].borrowed_at = loans[l].borrowed_at
                 /\ loans'[l].due_at = loans[l].due_at
                 /\ Len(loans') = Len(loans)
                 /\ \A i \in LoanIds : i # l => loans'[i] = loans[i]
                 /\ UNCHANGED <<books, members>>
        /\ Leaves(p, "return_increment")
              => LET b == loans[local[p].loan_id].book_id IN
                 /\ pc'[p] = "return_fetch"
                 /\ b \in BookIds
                 /\ books'[b].copies_available = books[b].copies_available + 1
                 /\ books'[b].total_copies = books[b].total_copies
                 /\ \A c \in BookIds : c # b => books'[c] = books[c]
                 /\ UNCHANGED <<members, loans>>
        /\ Leaves(p, "return_fetch")
              => LET l == local[p].loan_id IN
                 /\ Answers(p, "return_book")
                 /\ reply'.line = 273 /\ reply'.code = 200
                 /\ reply'.body.id = l
                 /\ reply'.body.doc.status = "returned"
                 /\ reply'.body.doc.returned_at # NoTime
                 /\ UNCHANGED <<books, members, loans>>]_vars

(* an overdue loan was returned: the answer carries status returned and the
   time of the return, the book has its copy back *)
C16_OverdueLoanReturned ==
    /\ reply.op = "return_book" /\ reply.line = 273 /\ reply.code = 200
    /\ reply.body.doc.status = "returned"
    /\ reply.body.doc.returned_at > reply.body.doc.due_at
    /\ loans[reply.body.id] = reply.body.doc
    /\ \E b \in BookIds :
          /\ b = reply.body.doc.book_id
          /\ books[b].copies_available = books[b].total_copies

(* C17: every loan that is borrowed or overdue refers to an existing book *)
C17_ActiveLoanHasBook ==
    \A i \in LoanIds :
        loans[i].status \in {"borrowed", "overdue"} => loans[i].book_id \in BookIds

(* C18: the loan that borrow_book inserts for a request of `days` days
   (MinDays <= days <= MaxDays) has status borrowed, no returned_at, and
   due_at = borrowed_at + days, hence due_at > borrowed_at *)
C18_DueAtIsBorrowedAtPlusDays ==
    [][\A p \in Procs :
        Leaves(p, "borrow_create_loan")
        => LET loan == loans'[Len(loans')] IN
           /\ Len(loans') = Len(loans) + 1
           /\ local[p].days >= MinDays /\ local[p].days <= MaxDays
           /\ loan.status = "borrowed"
           /\ loan.returned_at = NoTime
           /\ loan.due_at = loan.borrowed_at + local[p].days
           /\ loan.due_at > loan.borrowed_at]_vars

====
